---- MODULE Spec2Model ----
(***************************************************************************)
(* Model of the bionic-reader backend: the word splitter and text-run      *)
(* formatter (services/bionic_formatter.py), the paginated replayer        *)
(* (services/pdf_generator.py), the markup injector                        *)
(* (services/epub_service.py, main.py) and the session store               *)
(* (services/file_manager.py).                                             *)
(*                                                                         *)
(* A Python str is a sequence of one-character strings.  A float ratio is  *)
(* a record: [kind |-> "finite", num, den] stands for num/den, and the     *)
(* kinds "inf" and "nan" stand for the non-finite floats.                  *)
(***************************************************************************)
EXTENDS Integers, Sequences, FiniteSets, TLC

VARIABLES
    pc,               \* position of the modelled call
    word,             \* argument of apply_bionic_formatting
    bold_percentage,  \* the ratio argument of the modelled call
    result,           \* return value of apply_bionic_formatting
    text,             \* argument of format_text
    formatted_words,  \* return value of format_text
    glyph_widths,     \* the library's glyph advance per font and character
    n_pages,          \* len(original_pdf)
    page_num,         \* index of the page being replayed
    img_list,         \* original_page.get_images(full=True) of that page
    block_idx,        \* number of blocks of the page taken so far
    line_idx,         \* number of lines of the block taken so far
    span_idx,         \* number of spans of the line taken so far
    span,             \* the span being replayed, as extracted
    span_words,       \* words: its ligature-fixed text split on ' '
    word_i,           \* i: loop index into words (0-based)
    current_x,        \* the cursor
    emitted,          \* insert_text calls made for the current span
    page_images,      \* insert_image calls made on the current new page
    new_pages,        \* number of pages of new_pdf
    failure,          \* what raised, if anything did
    output,           \* the bytes returned by generate_bionic_pdf
    markup,           \* return value of format_text_bionic
    dom,              \* the nodes of the stored chapter, in document order
    request,          \* the last chapter request
    response,         \* its response
    files,            \* FileManager.files: file_id -> entry
    now,              \* the clock read by datetime.now(), in hours
    last_call         \* the last FileManager call, its result and its print

splitVars == <<word, result>>
formatVars == <<text, formatted_words>>
docVars == <<glyph_widths, n_pages>>
posVars == <<page_num, img_list, block_idx, line_idx, span_idx>>
spanVars == <<span, span_words, word_i, current_x, emitted>>
outVars == <<page_images, new_pages, failure, output>>
replayVars == <<docVars, posVars, spanVars, outVars>>
htmlVars == <<markup, dom, request, response>>
fileVars == <<files, now, last_call>>

vars == <<pc, word, bold_percentage, result, text, formatted_words,
          glyph_widths, n_pages, page_num, img_list, block_idx, line_idx,
          span_idx, span, span_words, word_i, current_x, emitted, page_images,
          new_pages, failure, output, markup, dom, request, response,
          files, now, last_call>>

----
(* Bounds *)

MaxWordLen == 7
MaxTextLen == 6
MaxSpanLen == 3
MaxPages == 2
MaxBlocks == 2
MaxLines == 1
MaxSpans == 2
MaxNodeLen == 6
MaxNodes == 2
MaxChapterTextLen == 2
MaxFiles == 3
MaxTime == 3

----
(* Characters *)

Ligatures == {"U+FB00", "U+FB01", "U+FB02", "U+FB03", "U+FB04", "U+FB05", "U+FB06"}
AlnumChars == {"a", "b", "1", "f", "i", "l", "s", "t"} \cup Ligatures
SpaceChars == {" ", "\t", "\n"}

SplitAlphabet == {"a", "-", "\t"}
FormatAlphabet == {"a", "-", " ", "\t"}
ReplayAlphabet == {"a", "-", " ", "U+FB01"}
InjectAlphabet == {"a", "-", "_", " "}
ChapterAlphabet == {"a", " "}

SeqsUpTo(S, n) == UNION {[1..k -> S] : k \in 0..n}

(* Ratios: a few finite floats inside and outside [0, 0.7], and the        *)
(* non-finite floats.                                                      *)
Fin(n, d) == [kind |-> "finite", num |-> n, den |-> d]
FiniteRatios == {Fin(0 - 1, 2), Fin(0, 1), Fin(3, 10), Fin(1, 2), Fin(7, 10),
                 Fin(1, 1), Fin(3, 2)}
NonFiniteRatios == {[kind |-> "inf", num |-> 1, den |-> 0],
                    [kind |-> "nan", num |-> 0, den |-> 0]}
Ratios == FiniteRatios \cup NonFiniteRatios
ReplayRatios == {Fin(0, 1), Fin(1, 2), [kind |-> "inf", num |-> 1, den |-> 0]}

Rep(c, n) == [k \in 1..n |-> c]

(* What the extractor can yield for a span: every short text, and a few    *)
(* with a core long enough for the ratio to matter.                        *)
LongSpanTexts == {Rep("a", 7), Rep("a", 6) \o <<" ", "-", "a">>}
(* and texts with each code point of the ligature table *)
LigatureSpanTexts == {<<c>> : c \in Ligatures}
                         \cup {<<"U+FB03", "a", " ", "U+FB06">>,
                               <<"U+FB00", "U+FB04", "-", "U+FB05">>}
SpanTexts == SeqsUpTo(ReplayAlphabet, MaxSpanLen) \cup LongSpanTexts
                 \cup LigatureSpanTexts
Origins == {<<0, 4>>, <<3, 9>>}
FontSizes == {2}
Spans == [text : SpanTexts, origin : Origins, size : FontSizes]

Images == {"img1", "img2"}
ImgLists == {<<>>, <<"img1">>, <<"img2", "img1">>}

(* Glyph advances of the two fonts at size 1: letters and other glyphs.    *)
GlyphChars == ReplayAlphabet \cup {"f", "i", "l", "s", "t"} \cup Ligatures
Tbl(letter, other) ==
    [c \in GlyphChars |-> IF c \in {"a", "f", "i", "l", "s", "t"} THEN letter ELSE other]
WidthTables == {[helv |-> Tbl(2, 1), hebo |-> Tbl(2, 1)],
                [helv |-> Tbl(2, 1), hebo |-> Tbl(3, 1)]}

----
(* str methods *)

isalnum_not_space(c) == c \notin SpaceChars

isalnum(c) == c \in AlnumChars

isspace(c) == c \in SpaceChars

RECURSIVE lstrip(_)
lstrip(s) == IF s # <<>> /\ isspace(Head(s)) THEN lstrip(Tail(s)) ELSE s

RECURSIVE rstrip(_)
rstrip(s) == IF s # <<>> /\ isspace(s[Len(s)])
             THEN rstrip(SubSeq(s, 1, Len(s) - 1)) ELSE s

strip(s) == rstrip(lstrip(s))

(* s[a:b] with 0 <= a, clamped to the string like a Python slice *)
Slice(s, a, b) == SubSeq(s, a + 1, IF b > Len(s) THEN Len(s) ELSE b)

----
(* services/bionic_formatter.py *)

(* int(x) truncates toward zero; it raises on inf and nan *)
int_raises(n, r) == r.kind # "finite"

(* How far the double of a ratio lies below the ratio, in units of 2^-54:  *)
(* the doubles 0.3 and 0.7 lie 1/5 and 4/5 of a unit below 3/10 and 7/10,  *)
(* the other finite ratios of the model are doubles themselves.            *)
float_error(r) ==
    IF r.num = 7 /\ r.den = 10 THEN [num |-> 4, den |-> 5]
    ELSE IF r.num = 3 /\ r.den = 10 THEN [num |-> 1, den |-> 5]
    ELSE [num |-> 0, den |-> 1]

(* the least power of two p * 2^i that is at least k *)
RECURSIVE pow2_at_least(_, _)
pow2_at_least(k, p) == IF p >= k THEN p ELSE pow2_at_least(k, 2 * p)

(* word_length * bold_percentage, a double: the value num/den, or, when    *)
(* below holds, the double next below the integer num/den.  The product    *)
(* of n and the double of r is rounded to 53 bits; it ends below an        *)
(* integer n*r when the error n * float_error(r) * 2^-54 exceeds half the  *)
(* spacing of the doubles below that integer (a tie rounds to the          *)
(* integer, whose last bit is even).                                       *)
float_mul(n, r) ==
    LET p == n * r.num
        e == float_error(r)
    IN [num |-> p, den |-> r.den,
        below |-> /\ p > 0
                  /\ p % r.den = 0
                  /\ e.num # 0
                  /\ n * e.num > e.den * pow2_at_least(p \div r.den, 1)]

int(x) == IF x.below THEN (x.num \div x.den) - 1
          ELSE IF x.num >= 0 THEN x.num \div x.den
          ELSE 0 - ((0 - x.num) \div x.den)

int_mul(n, r) == int(float_mul(n, r))

Max(a, b) == IF a >= b THEN a ELSE b
Min(a, b) == IF a <= b THEN a ELSE b

bold_count(word_length, r) ==
    IF word_length <= 2 THEN 1
    ELSE IF word_length <= 5 THEN 2
    ELSE Max(1, int_mul(word_length, r))

(* the while loop of lines 24-27: first index i (0-based) with an          *)
(* alphanumeric character, or len(clean_word)                              *)
RECURSIVE leading_scan(_, _)
leading_scan(clean_word, i) ==
    IF i < Len(clean_word) /\ ~isalnum(clean_word[i + 1])
    THEN leading_scan(clean_word, i + 1) ELSE i

(* the while loop of lines 30-33: last index j (0-based) >= i with an      *)
(* alphanumeric character, or i - 1                                        *)
RECURSIVE trailing_scan(_, _, _)
trailing_scan(clean_word, i, j) ==
    IF j >= i /\ ~isalnum(clean_word[j + 1])
    THEN trailing_scan(clean_word, i, j - 1) ELSE j

Returned(b, r) == [ok |-> TRUE, exc |-> "", bold |-> b, regular |-> r]
Raised(e) == [ok |-> FALSE, exc |-> e, bold |-> <<>>, regular |-> <<>>]

apply_bionic_formatting(w, r) ==
    IF w = <<>> \/ strip(w) = <<>> THEN Returned(w, <<>>)
    ELSE
      LET clean_word == strip(w)
          i == leading_scan(clean_word, 0)
          j == trailing_scan(clean_word, i, Len(clean_word) - 1)
          start_punct == Slice(clean_word, 0, i)
          end_punct == Slice(clean_word, j + 1, Len(clean_word))
          actual_word == Slice(clean_word, i, j + 1)
          word_length == Len(actual_word)
      IN IF actual_word = <<>> THEN Returned(w, <<>>)
         ELSE IF word_length > 5 /\ int_raises(word_length, r)
              THEN Raised(IF r.kind = "nan" THEN "ValueError" ELSE "OverflowError")
         ELSE LET k == bold_count(word_length, r)
                  bold_part == Slice(actual_word, 0, k)
                  regular_part == Slice(actual_word, k, word_length)
              IN Returned(start_punct \o bold_part, regular_part \o end_punct)

(* text.split(' '): one token per single space, empty tokens kept *)
RECURSIVE split_space(_)
split_space(s) ==
    IF \A i \in 1..Len(s) : s[i] # " " THEN <<s>>
    ELSE LET k == CHOOSE i \in 1..Len(s) :
                      s[i] = " " /\ \A j \in 1..(i - 1) : s[j] # " "
         IN <<SubSeq(s, 1, k - 1)>> \o split_space(SubSeq(s, k + 1, Len(s)))

(* the loop of format_text over words[i..], i 1-based *)
RECURSIVE format_loop(_, _, _)
format_loop(words, i, r) ==
    IF i > Len(words) THEN <<>>
    ELSE LET res == apply_bionic_formatting(words[i], r)
             regular == IF i < Len(words) THEN res.regular \o <<" ">>
                        ELSE res.regular
         IN <<[bold |-> res.bold, regular |-> regular]>>
            \o format_loop(words, i + 1, r)

format_text(t, r) ==
    LET words == split_space(t)
        raising == {i \in 1..Len(words) : ~apply_bionic_formatting(words[i], r).ok}
    IN IF raising # {}
       THEN LET first == CHOOSE i \in raising : \A j \in raising : i <= j
            IN [ok |-> FALSE, exc |-> apply_bionic_formatting(words[first], r).exc,
                pairs |-> <<>>]
       ELSE [ok |-> TRUE, exc |-> "", pairs |-> format_loop(words, 1, r)]

----
(* services/pdf_generator.py *)

ligature_map == <<
    [ligature |-> "U+FB01", replacement |-> <<"f", "i">>],
    [ligature |-> "U+FB02", replacement |-> <<"f", "l">>],
    [ligature |-> "U+FB00", replacement |-> <<"f", "f">>],
    [ligature |-> "U+FB03", replacement |-> <<"f", "f", "i">>],
    [ligature |-> "U+FB04", replacement |-> <<"f", "f", "l">>],
    [ligature |-> "U+FB05", replacement |-> <<"f", "t">>],
    [ligature |-> "U+FB06", replacement |-> <<"s", "t">>] >>

(* str.replace of a one-character pattern *)
RECURSIVE replace(_, _, _)
replace(s, old, new) ==
    IF s = <<>> THEN <<>>
    ELSE (IF Head(s) = old THEN new ELSE <<Head(s)>>) \o replace(Tail(s), old, new)

(* the loop of fix_ligatures over ligature_map[k..] *)
RECURSIVE fix_ligatures_from(_, _)
fix_ligatures_from(s, k) ==
    IF k > Len(ligature_map) THEN s
    ELSE fix_ligatures_from(
             replace(s, ligature_map[k].ligature, ligature_map[k].replacement), k + 1)

fix_ligatures_without_first_entry(s) == fix_ligatures_from(s, 2)

fix_ligatures(s) == fix_ligatures_from(s, 1)

(* str.rstrip(' ') *)
RECURSIVE rstrip_space(_)
rstrip_space(s) == IF s # <<>> /\ s[Len(s)] = " "
                   THEN rstrip_space(SubSeq(s, 1, Len(s) - 1)) ELSE s

(* fitz.get_text_length: the glyph advances of the font, summed and scaled *)
RECURSIVE glyph_sum(_, _)
glyph_sum(s, fontname) ==
    IF s = <<>> THEN 0
    ELSE glyph_widths[fontname][Head(s)] + glyph_sum(Tail(s), fontname)

get_text_length(s, fontname, fontsize) == fontsize * glyph_sum(s, fontname)

(* One new_page.insert_text call; tok is the index of the word it belongs  *)
(* to.                                                                     *)
InsertText(tok, x, y, s, fontname, fontsize) ==
    [tok |-> tok, x |-> x, y |-> y, text |-> s, fontname |-> fontname,
     fontsize |-> fontsize]

regular_font == "helv"
bold_font == "hebo"

----
(* services/epub_service.py *)

(* the class \w of the pattern: alphanumeric or underscore *)
word_char(c) == isalnum(c) \/ c = "_"

(* str.split(): the maximal runs of non-whitespace characters *)
RECURSIVE split_whitespace(_)
split_whitespace(s) ==
    LET t == lstrip(s)
    IN IF t = <<>> THEN <<>>
       ELSE LET ends == {k \in 1..Len(t) : isspace(t[k])}
                n == IF ends = {} THEN Len(t)
                     ELSE (CHOOSE k \in ends : \A m \in ends : k <= m) - 1
            IN <<SubSeq(t, 1, n)>> \o split_whitespace(SubSeq(t, n + 1, Len(t)))

(* number of characters of s from index k (0-based) on that are in class   *)
(* \w (if wanted) or \W (if not): a greedy quantifier                      *)
RECURSIVE greedy(_, _, _)
greedy(s, k, wanted) ==
    IF k < Len(s) /\ word_char(s[k + 1]) = wanted
    THEN 1 + greedy(s, k + 1, wanted) ELSE 0

(* re.match of line 210: the groups \W* , \w+ and \W* , anchored at both  *)
(* ends of the word                                                        *)
re_match(w) ==
    LET p == greedy(w, 0, FALSE)
        q == greedy(w, p, TRUE)
        r == greedy(w, p + q, FALSE)
    IN [matched |-> q >= 1 /\ p + q + r = Len(w),
        prefix |-> Slice(w, 0, p),
        core_word |-> Slice(w, p, p + q),
        suffix |-> Slice(w, p + q, Len(w))]

html_bold_count(word_len, r) ==
    IF word_len <= 2 THEN 1
    ELSE IF word_len <= 5 THEN 2
    ELSE Max(1, int_mul(word_len, r))

formatted_word_without_suffix(w, r) ==
    LET m == re_match(w)
    IN IF m.matched
       THEN LET word_len == Len(m.core_word)
                k == html_bold_count(word_len, r)
            IN m.prefix \o <<"<strong>">> \o Slice(m.core_word, 0, k)
               \o <<"</strong>">> \o Slice(m.core_word, k, word_len)
       ELSE w

(* lines 210-232: the markup of one word *)
formatted_word(w, r) ==
    LET m == re_match(w)
    IN IF m.matched
       THEN LET word_len == Len(m.core_word)
                k == html_bold_count(word_len, r)
            IN m.prefix \o <<"<strong>">> \o Slice(m.core_word, 0, k)
               \o <<"</strong>">> \o Slice(m.core_word, k, word_len) \o m.suffix
       ELSE w

word_raises(w, r) ==
    LET m == re_match(w)
    IN m.matched /\ Len(m.core_word) > 5 /\ int_raises(Len(m.core_word), r)

(* the loop of format_text_bionic over words[k..], k 1-based *)
RECURSIVE bionic_loop(_, _, _)
bionic_loop(ws, k, r) ==
    IF k > Len(ws) THEN <<>>
    ELSE formatted_word(ws[k], r)
         \o (IF k < Len(ws) THEN <<" ">> ELSE <<>>)
         \o bionic_loop(ws, k + 1, r)

(* The returned BeautifulSoup fragment is given by the string it was       *)
(* parsed from; the texts of the model hold no markup characters.          *)
format_text_bionic(t, r) ==
    LET ws == split_whitespace(t)
    IN IF \E k \in 1..Len(ws) : word_raises(ws[k], r)
       THEN [ok |-> FALSE,
             exc |-> IF r.kind = "nan" THEN "ValueError" ELSE "OverflowError",
             html |-> <<>>]
       ELSE [ok |-> TRUE, exc |-> "", html |-> bionic_loop(ws, 1, r)]

(* A node of the chapter: a text node or a comment under the element       *)
(* `tag`, or an img element with its src attribute.  type is the class of  *)
(* the node in the parsed tree; a Comment is a NavigableString too, and    *)
(* find_all(text=True) yields both.                                        *)
TextNode(tag, section, t) ==
    [type |-> "NavigableString", tag |-> tag, section |-> section, text |-> t,
     src |-> <<>>]
CommentNode(tag, section, t) ==
    [type |-> "Comment", tag |-> tag, section |-> section, text |-> t, src |-> <<>>]
ImgNode(src) ==
    [type |-> "Tag", tag |-> "img", section |-> "body", text |-> <<>>, src |-> src]
(* the body element itself, when the chapter has one without content *)
BodyTag ==
    [type |-> "Tag", tag |-> "body", section |-> "body", text |-> <<>>, src |-> <<>>]

(* the image items of the book in the order of book.get_items(): name,     *)
(* content, and whether get_content() returns it or raises                 *)
BookImages == <<
    [name |-> <<"i", "/", "a", ".", "p", "n", "g">>, content |-> "a-bytes",
     readable |-> TRUE],
    [name |-> <<"i", "/", "B", ".", "G", "I", "F">>, content |-> "b-bytes",
     readable |-> TRUE],
    [name |-> <<"c", ".", "s", "v", "g">>, content |-> "c-bytes",
     readable |-> FALSE] >>

(* str.lstrip('/') *)
RECURSIVE lstrip_slash(_)
lstrip_slash(s) == IF s # <<>> /\ Head(s) = "/" THEN lstrip_slash(Tail(s)) ELSE s

startswith(s, prefix) ==
    Len(prefix) <= Len(s) /\ SubSeq(s, 1, Len(prefix)) = prefix

endswith(s, suffix) ==
    Len(suffix) <= Len(s) /\ SubSeq(s, Len(s) - Len(suffix) + 1, Len(s)) = suffix

(* str.replace(old, ''), old not empty: the occurrences from the left *)
RECURSIVE remove_all(_, _)
remove_all(s, old) ==
    IF s = <<>> THEN <<>>
    ELSE IF startswith(s, old) THEN remove_all(SubSeq(s, Len(old) + 1, Len(s)), old)
    ELSE <<Head(s)>> \o remove_all(Tail(s), old)

(* sub in s *)
contains(s, sub) ==
    \E k \in 1..(Len(s) + 1) :
        k + Len(sub) - 1 <= Len(s) /\ SubSeq(s, k, k + Len(sub) - 1) = sub

(* s.split('/')[-1] *)
last_segment(s) ==
    LET slashes == {k \in 1..Len(s) : s[k] = "/"}
    IN IF slashes = {} THEN s
       ELSE SubSeq(s, (CHOOSE k \in slashes : \A m \in slashes : m <= k) + 1, Len(s))

lower_char(c) ==
    CASE c = "B" -> "b" [] c = "G" -> "g" [] c = "I" -> "i" [] c = "F" -> "f"
      [] OTHER -> c
lower(s) == [k \in 1..Len(s) |-> lower_char(s[k])]

(* lines 99-108 *)
mime_type(item_name) ==
    IF endswith(lower(item_name), <<".", "p", "n", "g">>) THEN "image/png"
    ELSE IF endswith(lower(item_name), <<".", "g", "i", "f">>) THEN "image/gif"
    ELSE IF endswith(lower(item_name), <<".", "s", "v", "g">>) THEN "image/svg+xml"
    ELSE IF endswith(lower(item_name), <<".", "w", "e", "b", "p">>) THEN "image/webp"
    ELSE "image/jpeg"

(* lines 84-92: the index of the first image item that the cleaned src     *)
(* matches, or 0                                                           *)
find_image(src) ==
    LET hits == {k \in 1..Len(BookImages) :
                    \/ contains(BookImages[k].name, src)
                    \/ endswith(BookImages[k].name, last_segment(src))}
    IN IF hits = {} THEN 0 ELSE CHOOSE k \in hits : \A m \in hits : k <= m

(* lines 75-121: one img tag after the loop body; the data URL is the      *)
(* sequence of its parts, the content standing for its base64 encoding     *)
convert_image(node) ==
    IF node.tag # "img" \/ node.src = <<>> THEN node
    ELSE LET src == remove_all(lstrip_slash(node.src), <<".", ".", "/">>)
             k == find_image(src)
         IN IF k = 0 \/ ~BookImages[k].readable THEN node
            ELSE [node EXCEPT !.src = <<"data:", mime_type(BookImages[k].name),
                                        ";base64,", BookImages[k].content>>]

convert_images_to_base64(nodes) == [k \in 1..Len(nodes) |-> convert_image(nodes[k])]

(* lines 183-194: what one node is replaced with *)
bionic_node(node, r) ==
    IF node.type = "Tag" THEN node
    ELSE IF node.tag \in {"script", "style", "title"} THEN node
    ELSE IF strip(node.text) = <<>> THEN node
    ELSE [node EXCEPT !.type = "BeautifulSoup",
                      !.text = format_text_bionic(node.text, r).html]

node_raises(node, r) ==
    /\ node.type # "Tag"
    /\ node.tag \notin {"script", "style", "title"}
    /\ strip(node.text) # <<>>
    /\ ~format_text_bionic(node.text, r).ok

(* the exception of the first node of the loop whose formatting raises *)
first_exception(nodes, r) ==
    LET k == CHOOSE n \in 1..Len(nodes) :
                 /\ node_raises(nodes[n], r)
                 /\ \A m \in 1..(n - 1) : ~node_raises(nodes[m], r)
    IN format_text_bionic(nodes[k].text, r).exc

apply_bionic_to_html(nodes, r) == [k \in 1..Len(nodes) |-> bionic_node(nodes[k], r)]

(* the nodes of the body element, in document order *)
RECURSIVE body_nodes(_)
body_nodes(nodes) ==
    IF nodes = <<>> THEN <<>>
    ELSE (IF Head(nodes).section = "body" THEN <<Head(nodes)>> ELSE <<>>)
         \o body_nodes(Tail(nodes))

(* lines 164-165: str(body) if the tree has a body element, which it has   *)
(* when the chapter has one or holds content outside the head; else        *)
(* str(soup), the whole tree                                               *)
body_of(nodes) ==
    IF \E k \in 1..Len(nodes) : nodes[k].section = "body"
    THEN body_nodes(nodes)
    ELSE nodes

(* the document items of the book: the one stored chapter *)
documents == <<dom>>

get_chapter_content(chapter_id, r) ==
    IF chapter_id < 0 \/ chapter_id >= Len(documents)
    THEN [ok |-> FALSE, exc |-> "ValueError", chapter_id |-> chapter_id,
          html_content |-> <<>>]
    ELSE LET soup == convert_images_to_base64(documents[chapter_id + 1])
         IN IF \E k \in 1..Len(soup) : node_raises(soup[k], r)
            THEN [ok |-> FALSE, exc |-> first_exception(soup, r),
                  chapter_id |-> chapter_id, html_content |-> <<>>]
            ELSE [ok |-> TRUE, exc |-> "", chapter_id |-> chapter_id,
                  html_content |-> body_of(apply_bionic_to_html(soup, r))]

----
(* services/file_manager.py *)

(* FileManager(expiry_hours=2) *)
expiry_hours == 2

(* lines 18-23: the entry of a file stored at time t; uploaded_at is       *)
(* written there and read nowhere, and the entry holds the fields that     *)
(* are read                                                                *)
Entry(file_bytes, filename, t) ==
    [content |-> file_bytes, filename |-> filename, last_accessed |-> t]

(* lines 51-57: the ids the sweep at time t collects *)
expired_ids(fs, t) ==
    {file_id \in DOMAIN fs : t - fs[file_id].last_accessed > expiry_hours}

cleanup_expired_from_expiry_on(fs, t) ==
    [file_id \in {f \in DOMAIN fs : ~(t - fs[f].last_accessed >= expiry_hours)}
        |-> fs[file_id]]

(* lines 49-60: the entries the sweep at time t leaves *)
cleanup_expired(fs, t) ==
    [file_id \in DOMAIN fs \ expired_ids(fs, t) |-> fs[file_id]]

(* lines 28-34: the entries after get_file at time t, and its return value *)
get_file(fs, file_id, t) ==
    IF file_id \notin DOMAIN fs
    THEN [files |-> fs, value |-> "None"]
    ELSE [files |-> [fs EXCEPT ![file_id].last_accessed = t],
          value |-> fs[file_id].content]

----
(* main.py *)

(* Query(0.5, ge=0.0, le=0.7) *)
query_valid(r) == r.kind = "finite" /\ r.num >= 0 /\ 10 * r.num <= 7 * r.den

(* lines 55-86: the response; a request whose query is rejected does not  *)
(* reach the handler                                                       *)
get_chapter(req) ==
    IF ~query_valid(req.bold_percentage)
    THEN [status |-> 422, html_content |-> <<>>]
    ELSE LET epub_bytes == get_file(files, req.file_id, now).value
         IN IF epub_bytes = "None"
            THEN [status |-> 404, html_content |-> <<>>]
            ELSE LET chapter_data == get_chapter_content(req.chapter_id,
                                                         req.bold_percentage)
                 IN IF chapter_data.ok
                    THEN [status |-> 200, chapter_id |-> chapter_data.chapter_id,
                          html_content |-> chapter_data.html_content]
                    ELSE IF chapter_data.exc = "ValueError"
                    THEN [status |-> 400, html_content |-> <<>>]
                    ELSE [status |-> 500, html_content |-> <<>>]

----
(* Values of the variables of a call that is not being modelled *)

NoSpan == [text |-> <<>>, origin |-> <<0, 0>>, size |-> 0]

ReplayIdle ==
    /\ glyph_widths = <<>>
    /\ n_pages = 0
    /\ page_num = 0
    /\ img_list = <<>>
    /\ block_idx = 0
    /\ line_idx = 0
    /\ span_idx = 0
    /\ span = NoSpan
    /\ span_words = <<>>
    /\ word_i = 0
    /\ current_x = 0
    /\ emitted = <<>>
    /\ page_images = <<>>
    /\ new_pages = 0
    /\ failure = "none"
    /\ output = "none"

NoMarkup == [ok |-> FALSE, exc |-> "none", html |-> <<>>]
NoRequest == [file_id |-> 0, chapter_id |-> 0, bold_percentage |-> Fin(0, 1)]
NoResponse == [status |-> 0, html_content |-> <<>>]

HtmlIdle ==
    /\ markup = NoMarkup
    /\ dom = <<>>
    /\ request = NoRequest
    /\ response = NoResponse

NoFiles == [file_id \in {} |-> file_id]
NoCall == [op |-> "none", file_id |-> 0, value |-> "None", cleaned |-> 0]

FilesIdle ==
    /\ files = NoFiles
    /\ now = 0
    /\ last_call = NoCall

----
(* Specification of one call of apply_bionic_formatting *)

NoResult == [ok |-> FALSE, exc |-> "none", bold |-> <<>>, regular |-> <<>>]
NoFormat == [ok |-> FALSE, exc |-> "none", pairs |-> <<>>]

(* words whose length times 0.7 is a whole number, where the rounding of   *)
(* the double product shows                                                *)
LongWords == {Rep("a", 10), Rep("a", 90), <<"-">> \o Rep("a", 170) \o <<"-">>}

InitSplit ==
    /\ pc = "call"
    /\ word \in SeqsUpTo(SplitAlphabet, MaxWordLen) \cup LongWords
    /\ bold_percentage \in Ratios
    /\ result = NoResult
    /\ text = <<>>
    /\ formatted_words = NoFormat
    /\ ReplayIdle
    /\ HtmlIdle
    /\ FilesIdle

CallSplit ==
    /\ pc = "call"
    /\ result' = apply_bionic_formatting(word, bold_percentage)
    /\ pc' = "returned"
    /\ UNCHANGED <<word, bold_percentage, formatVars, replayVars, htmlVars, fileVars>>

NextSplit == CallSplit

SpecSplit == InitSplit /\ [][NextSplit]_vars

----
(* Specification of one call of format_text *)

InitFormat ==
    /\ pc = "call"
    /\ text \in SeqsUpTo(FormatAlphabet, MaxTextLen)
    /\ bold_percentage \in Ratios
    /\ formatted_words = NoFormat
    /\ word = <<>>
    /\ result = NoResult
    /\ ReplayIdle
    /\ HtmlIdle
    /\ FilesIdle

CallFormat ==
    /\ pc = "call"
    /\ formatted_words' = format_text(text, bold_percentage)
    /\ pc' = "returned"
    /\ UNCHANGED <<text, bold_percentage, splitVars, replayVars, htmlVars, fileVars>>

NextFormat == CallFormat

SpecFormat == InitFormat /\ [][NextFormat]_vars

----
(* Specification of one call of generate_bionic_pdf.  The pages, blocks,   *)
(* lines and spans that the library extracts are revealed as the loops     *)
(* reach them; every library call on the text path may raise.              *)

NotSplitting ==
    /\ word = <<>>
    /\ result = NoResult
    /\ text = <<>>
    /\ formatted_words = NoFormat

InitReplay ==
    /\ pc = "page"
    /\ bold_percentage \in ReplayRatios
    /\ glyph_widths \in WidthTables
    /\ n_pages \in 1..MaxPages
    /\ page_num = 0
    /\ img_list = <<>>
    /\ block_idx = 0
    /\ line_idx = 0
    /\ span_idx = 0
    /\ span = NoSpan
    /\ span_words = <<>>
    /\ word_i = 0
    /\ current_x = 0
    /\ emitted = <<>>
    /\ page_images = <<>>
    /\ new_pages = 0
    /\ failure = "none"
    /\ output = "none"
    /\ NotSplitting
    /\ HtmlIdle
    /\ FilesIdle

(* lines 40-51: the next page of original_pdf *)
NewPage ==
    /\ pc = "page"
    /\ page_num < n_pages
    /\ new_pages' = new_pages + 1
    /\ page_images' = <<>>
    /\ \E l \in ImgLists : img_list' = l
    /\ block_idx' = 0
    /\ pc' = "block"
    /\ UNCHANGED <<bold_percentage, splitVars, formatVars, htmlVars, docVars, page_num,
                   line_idx, span_idx, spanVars, failure, output, fileVars>>

(* lines 136-142: all pages done *)
Finish ==
    /\ pc = "page"
    /\ page_num = n_pages
    /\ output' = [pages |-> new_pages]
    /\ pc' = "done"
    /\ UNCHANGED <<bold_percentage, splitVars, formatVars, htmlVars, docVars, posVars,
                   spanVars, page_images, new_pages, failure, fileVars>>

(* line 53: the page has no further block *)
EndOfBlocks ==
    /\ pc = "block"
    /\ page_num' = page_num + 1
    /\ pc' = "page"
    /\ UNCHANGED <<bold_percentage, splitVars, formatVars, htmlVars, docVars, img_list,
                   block_idx, line_idx, span_idx, spanVars, outVars, fileVars>>

(* lines 53-55: the next block is a text block *)
TextBlock ==
    /\ pc = "block"
    /\ block_idx < MaxBlocks
    /\ block_idx' = block_idx + 1
    /\ line_idx' = 0
    /\ pc' = "line"
    /\ UNCHANGED <<bold_percentage, splitVars, formatVars, htmlVars, docVars, page_num,
                   img_list, span_idx, spanVars, outVars, fileVars>>

(* the images a block of the page can show: one of the page's image list,  *)
(* or any image when the page lists none (its resource cannot be located)  *)
BlockImages(l) == IF l = <<>> THEN Images ELSE {l[k] : k \in 1..Len(l)}

(* lines 116-133: the next block is an image block, whose own image is     *)
(* block_image; extract_image or insert_image may raise inside the try,    *)
(* and the loop over img_list is left after its first element              *)
ImageBlock ==
    /\ pc = "block"
    /\ block_idx < MaxBlocks
    /\ block_idx' = block_idx + 1
    /\ \E block_image \in BlockImages(img_list), outcome \in {"ok", "raises"} :
          page_images' =
              IF img_list # <<>> /\ outcome = "ok"
              THEN Append(page_images, [bbox |-> block_idx + 1,
                                        image |-> img_list[1],
                                        block_image |-> block_image])
              ELSE page_images
    /\ UNCHANGED <<pc, bold_percentage, splitVars, formatVars, htmlVars, docVars,
                   page_num, img_list, line_idx, span_idx, spanVars,
                   new_pages, failure, output, fileVars>>

(* line 55: the block has no further line *)
EndOfLines ==
    /\ pc = "line"
    /\ pc' = "block"
    /\ UNCHANGED <<bold_percentage, splitVars, formatVars, htmlVars, replayVars, htmlVars, fileVars>>

(* lines 55-57: the next line of the block *)
NextLine ==
    /\ pc = "line"
    /\ line_idx < MaxLines
    /\ line_idx' = line_idx + 1
    /\ span_idx' = 0
    /\ pc' = "span"
    /\ UNCHANGED <<bold_percentage, splitVars, formatVars, htmlVars, docVars, page_num,
                   img_list, block_idx, spanVars, outVars, fileVars>>

(* line 59: the line has no further span *)
EndOfSpans ==
    /\ pc = "span"
    /\ pc' = "line"
    /\ UNCHANGED <<bold_percentage, splitVars, formatVars, htmlVars, replayVars, htmlVars, fileVars>>

(* lines 59-77: the next span of the line *)
StartSpan ==
    /\ pc = "span"
    /\ span_idx < MaxSpans
    /\ span_idx' = span_idx + 1
    /\ \E sp \in Spans :
          /\ span' = sp
          /\ span_words' = split_space(fix_ligatures(sp.text))
          /\ current_x' = sp.origin[1]
    /\ word_i' = 0
    /\ emitted' = <<>>
    /\ pc' = "word"
    /\ UNCHANGED <<bold_percentage, splitVars, formatVars, htmlVars, docVars, page_num,
                   img_list, block_idx, line_idx, outVars, fileVars>>

(* line 79: the words of the span are exhausted; the locals of the span    *)
(* are dead from here on (line 59 rebinds them) and are cleared            *)
EndOfWords ==
    /\ pc = "word"
    /\ word_i = Len(span_words)
    /\ span' = NoSpan
    /\ span_words' = <<>>
    /\ word_i' = 0
    /\ current_x' = 0
    /\ emitted' = <<>>
    /\ pc' = "span"
    /\ UNCHANGED <<bold_percentage, splitVars, formatVars, htmlVars, docVars, posVars,
                   outVars, fileVars>>

FailPoints == {"none", "insert_bold", "measure_bold", "insert_regular",
               "measure_regular", "measure_space"}

(* lines 79-114: one iteration of the loop over words; fail is the library *)
(* call of this iteration that raises, if any                              *)
ProcessWord ==
    /\ pc = "word"
    /\ word_i < Len(span_words)
    /\ LET w == span_words[word_i + 1]
           res == apply_bionic_formatting(w, bold_percentage)
           y == span.origin[2]
           font_size == span.size
           bold_part == res.bold
           regular_part_no_space == rstrip_space(res.regular)
           bold_ops == IF bold_part # <<>>
                       THEN <<InsertText(word_i, current_x, y, bold_part,
                                         bold_font, font_size)>>
                       ELSE <<>>
           x_bold == IF bold_part # <<>>
                     THEN current_x + get_text_length(bold_part, bold_font, font_size)
                     ELSE current_x
           regular_ops == IF regular_part_no_space # <<>>
                          THEN <<InsertText(word_i, x_bold, y, regular_part_no_space,
                                            regular_font, font_size)>>
                          ELSE <<>>
           x_regular == IF regular_part_no_space # <<>>
                        THEN x_bold + get_text_length(regular_part_no_space,
                                                      regular_font, font_size)
                        ELSE x_bold
           x_space == IF word_i < Len(span_words) - 1
                      THEN x_regular + get_text_length(<<" ">>, regular_font, font_size)
                      ELSE x_regular
       IN IF w = <<>>
          THEN /\ word_i' = word_i + 1
               /\ UNCHANGED <<pc, current_x, emitted, failure>>
          ELSE IF ~res.ok
          THEN /\ pc' = "raised"
               /\ failure' = res.exc
               /\ UNCHANGED <<word_i, current_x, emitted>>
          ELSE \E fail \in FailPoints :
               \/ /\ fail = "none"
                  /\ emitted' = emitted \o bold_ops \o regular_ops
                  /\ current_x' = x_space
                  /\ word_i' = word_i + 1
                  /\ UNCHANGED <<pc, failure>>
               \/ /\ fail = "insert_bold"
                  /\ bold_part # <<>>
                  /\ pc' = "raised"
                  /\ failure' = "insert_text"
                  /\ UNCHANGED <<word_i, current_x, emitted>>
               \/ /\ fail = "measure_bold"
                  /\ bold_part # <<>>
                  /\ emitted' = emitted \o bold_ops
                  /\ pc' = "raised"
                  /\ failure' = "get_text_length"
                  /\ UNCHANGED <<word_i, current_x>>
               \/ /\ fail = "insert_regular"
                  /\ regular_part_no_space # <<>>
                  /\ emitted' = emitted \o bold_ops
                  /\ current_x' = x_bold
                  /\ pc' = "raised"
                  /\ failure' = "insert_text"
                  /\ UNCHANGED word_i
               \/ /\ fail = "measure_regular"
                  /\ regular_part_no_space # <<>>
                  /\ emitted' = emitted \o bold_ops \o regular_ops
                  /\ current_x' = x_bold
                  /\ pc' = "raised"
                  /\ failure' = "get_text_length"
                  /\ UNCHANGED word_i
               \/ /\ fail = "measure_space"
                  /\ word_i < Len(span_words) - 1
                  /\ emitted' = emitted \o bold_ops \o regular_ops
                  /\ current_x' = x_regular
                  /\ pc' = "raised"
                  /\ failure' = "get_text_length"
                  /\ UNCHANGED word_i
    /\ UNCHANGED <<bold_percentage, splitVars, formatVars, htmlVars, docVars, posVars,
                   span, span_words, page_images, new_pages, output, fileVars>>

NextReplay ==
    \/ NewPage
    \/ Finish
    \/ EndOfBlocks
    \/ TextBlock
    \/ ImageBlock
    \/ EndOfLines
    \/ NextLine
    \/ EndOfSpans
    \/ StartSpan
    \/ EndOfWords
    \/ ProcessWord

SpecReplay == InitReplay /\ [][NextReplay]_vars

----
(* Specification of the loop over the spans of one line (lines 59-114):    *)
(* generate_bionic_pdf has reached the first line of the first text block  *)
(* of a one-page document.                                                 *)

InitSpans ==
    /\ pc = "span"
    /\ bold_percentage \in ReplayRatios
    /\ glyph_widths \in WidthTables
    /\ n_pages = 1
    /\ page_num = 0
    /\ img_list = <<>>
    /\ block_idx = 1
    /\ line_idx = 1
    /\ span_idx = 0
    /\ span = NoSpan
    /\ span_words = <<>>
    /\ word_i = 0
    /\ current_x = 0
    /\ emitted = <<>>
    /\ page_images = <<>>
    /\ new_pages = 1
    /\ failure = "none"
    /\ output = "none"
    /\ NotSplitting
    /\ HtmlIdle
    /\ FilesIdle

NextSpans ==
    \/ StartSpan
    \/ EndOfWords
    \/ ProcessWord

SpecSpans == InitSpans /\ [][NextSpans]_vars

----
(* Specification of one call of format_text_bionic *)

NotReplaying ==
    /\ glyph_widths = <<>>
    /\ n_pages = 0
    /\ page_num = 0
    /\ img_list = <<>>
    /\ block_idx = 0
    /\ line_idx = 0
    /\ span_idx = 0
    /\ span = NoSpan
    /\ span_words = <<>>
    /\ word_i = 0
    /\ current_x = 0
    /\ emitted = <<>>
    /\ page_images = <<>>
    /\ new_pages = 0
    /\ failure = "none"
    /\ output = "none"

(* the texts of a node: every short text, and a few with tabs and line     *)
(* breaks between and around the words                                     *)
InjectTexts == SeqsUpTo(InjectAlphabet, MaxNodeLen)
                   \cup {<<"a", "\t", "a">>, <<"\n", "a", "-", "\n">>,
                         <<"\n", " ", "a", "\t", "\n", "-", "a", " ", "\n">>}

InitInject ==
    /\ pc = "call"
    /\ text \in InjectTexts
    /\ bold_percentage \in Ratios
    /\ markup = NoMarkup
    /\ dom = <<>>
    /\ request = NoRequest
    /\ response = NoResponse
    /\ word = <<>>
    /\ result = NoResult
    /\ formatted_words = NoFormat
    /\ NotReplaying
    /\ FilesIdle

CallInject ==
    /\ pc = "call"
    /\ markup' = format_text_bionic(text, bold_percentage)
    /\ pc' = "returned"
    /\ UNCHANGED <<text, bold_percentage, word, result, formatted_words,
                   replayVars, dom, request, response, fileVars>>

NextInject == CallInject

SpecInject == InitInject /\ [][NextInject]_vars

----
(* Specification of the chapter endpoint over one stored chapter *)

ChapterTexts == SeqsUpTo(ChapterAlphabet, MaxChapterTextLen)
                    \cup {Rep("a", 7), <<"a", "-", "a">>}
(* texts under script, style and title, which are not formatted *)
SkippedTexts == {<<"a">>, <<" ">>, <<"a", " ">>}

(* src values: none, the name of an item, that name behind "/" and        *)
(* behind "../", its file name in another directory, a name no item has,   *)
(* "/" alone, the name of the second item and of the unreadable one        *)
ImgSrcs == {<<>>,
            <<"i", "/", "a", ".", "p", "n", "g">>,
            <<"/", "i", "/", "a", ".", "p", "n", "g">>,
            <<".", ".", "/", "i", "/", "a", ".", "p", "n", "g">>,
            <<"x", "/", "a", ".", "p", "n", "g">>,
            <<"m", ".", "p", "n", "g">>,
            <<"/">>,
            <<"B", ".", "G", "I", "F">>,
            <<"c", ".", "s", "v", "g">>}
Nodes == {TextNode("p", "body", t) : t \in ChapterTexts}
             \cup {TextNode("script", "body", t) : t \in SkippedTexts}
             \cup {TextNode("style", "head", t) : t \in SkippedTexts}
             \cup {TextNode("title", "head", t) : t \in SkippedTexts}
             \cup {CommentNode("p", "body", t) : t \in ChapterTexts}
             \cup {ImgNode(src) : src \in ImgSrcs}
             \cup {BodyTag}

RequestRatios == {Fin(0, 1), Fin(1, 2), Fin(7, 10), Fin(1, 1), Fin(0 - 1, 2),
                  [kind |-> "inf", num |-> 1, den |-> 0]}
Requests == [file_id : {1, 2}, chapter_id : {0 - 1, 0, 1},
             bold_percentage : RequestRatios]

(* The server an hour after its start: either nothing was uploaded, or    *)
(* the book was stored under the id 1 at hour 0.                           *)
InitChapter ==
    /\ pc = "serving"
    /\ dom \in UNION {[1..n -> Nodes] : n \in 1..MaxNodes}
    /\ request = NoRequest
    /\ response = NoResponse
    /\ markup = NoMarkup
    /\ bold_percentage = Fin(0, 1)
    /\ NotSplitting
    /\ NotReplaying
    /\ now = 1
    /\ \/ /\ files = NoFiles
          /\ last_call = NoCall
       \/ /\ files = [file_id \in {1} |-> Entry("epub-bytes", "f1", 0)]
          /\ last_call = [op |-> "store_file", file_id |-> 1, value |-> "id",
                          cleaned |-> 0]

(* main.py lines 55-86: the handler calls file_manager.get_file (line 71), *)
(* which refreshes last_accessed of the file it finds                      *)
GetChapter ==
    /\ pc = "serving"
    /\ \E req \in Requests :
          /\ request' = req
          /\ response' = get_chapter(req)
          /\ IF query_valid(req.bold_percentage)
             THEN LET got == get_file(files, req.file_id, now)
                  IN /\ files' = got.files
                     /\ last_call' = [op |-> "get_file", file_id |-> req.file_id,
                                      value |-> got.value, cleaned |-> 0]
             ELSE UNCHANGED <<files, last_call>>
    /\ UNCHANGED <<pc, now, bold_percentage, splitVars, formatVars, replayVars,
                   markup, dom>>

NextChapter == GetChapter

SpecChapter == InitChapter /\ [][NextChapter]_vars

----
(* Specification of the FileManager instance of the server: its methods    *)
(* are called in any order while the clock advances.                       *)

FileIds == 1..MaxFiles
Uploads == {[content |-> "c1", filename |-> "f1"],
            [content |-> "c2", filename |-> "f2"]}

InitFiles ==
    /\ pc = "serving"
    /\ files = NoFiles
    /\ now = 0
    /\ last_call = NoCall
    /\ bold_percentage = Fin(0, 1)
    /\ NotSplitting
    /\ NotReplaying
    /\ HtmlIdle

(* lines 14-26; file_id is a uuid4, an id no entry has *)
StoreFile ==
    /\ \E up \in Uploads, file_id \in FileIds \ DOMAIN files :
          LET stored == [f \in DOMAIN files \cup {file_id} |->
                            IF f = file_id
                            THEN Entry(up.content, up.filename, now)
                            ELSE files[f]]
          IN /\ files' = cleanup_expired(stored, now)
             /\ last_call' = [op |-> "store_file", file_id |-> file_id,
                              value |-> "id",
                              cleaned |-> Cardinality(expired_ids(stored, now))]
    /\ UNCHANGED <<pc, now, bold_percentage, splitVars, formatVars, replayVars,
                   htmlVars>>

(* lines 28-34 *)
GetFile ==
    /\ \E file_id \in FileIds :
          LET got == get_file(files, file_id, now)
          IN /\ files' = got.files
             /\ last_call' = [op |-> "get_file", file_id |-> file_id,
                              value |-> got.value, cleaned |-> 0]
    /\ UNCHANGED <<pc, now, bold_percentage, splitVars, formatVars, replayVars,
                   htmlVars>>

(* lines 36-40 *)
GetFilename ==
    /\ \E file_id \in FileIds :
          last_call' = [op |-> "get_filename", file_id |-> file_id,
                        value |-> IF file_id \notin DOMAIN files THEN "None"
                                  ELSE files[file_id].filename,
                        cleaned |-> 0]
    /\ UNCHANGED <<pc, files, now, bold_percentage, splitVars, formatVars,
                   replayVars, htmlVars>>

(* lines 42-47 *)
DeleteFile ==
    /\ \E file_id \in FileIds :
          IF file_id \in DOMAIN files
          THEN /\ files' = [f \in DOMAIN files \ {file_id} |-> files[f]]
               /\ last_call' = [op |-> "delete_file", file_id |-> file_id,
                                value |-> "True", cleaned |-> 0]
          ELSE /\ files' = files
               /\ last_call' = [op |-> "delete_file", file_id |-> file_id,
                                value |-> "False", cleaned |-> 0]
    /\ UNCHANGED <<pc, now, bold_percentage, splitVars, formatVars, replayVars,
                   htmlVars>>

(* an hour passes between two calls *)
Tick ==
    /\ now < MaxTime
    /\ now' = now + 1
    /\ UNCHANGED <<pc, files, last_call, bold_percentage, splitVars, formatVars,
                   replayVars, htmlVars>>

NextFiles ==
    \/ StoreFile
    \/ GetFile
    \/ GetFilename
    \/ DeleteFile
    \/ Tick

SpecFiles == InitFiles /\ [][NextFiles]_vars

----
(* Terms in which the word-splitter properties are stated: the core is     *)
(* the substring from the first to the last alphanumeric character, the    *)
(* punctuation is what surrounds it inside the trimmed word.               *)

HasAlnum(w) == \E i \in 1..Len(w) : w[i] \in AlnumChars
HasNonSpace(w) == \E i \in 1..Len(w) : w[i] \notin SpaceChars

FirstAlnum(w) == CHOOSE i \in 1..Len(w) :
    w[i] \in AlnumChars /\ \A j \in 1..(i - 1) : w[j] \notin AlnumChars
LastAlnum(w) == CHOOSE i \in 1..Len(w) :
    w[i] \in AlnumChars /\ \A j \in (i + 1)..Len(w) : w[j] \notin AlnumChars
FirstNonSpace(w) == CHOOSE i \in 1..Len(w) :
    w[i] \notin SpaceChars /\ \A j \in 1..(i - 1) : w[j] \in SpaceChars
LastNonSpace(w) == CHOOSE i \in 1..Len(w) :
    w[i] \notin SpaceChars /\ \A j \in (i + 1)..Len(w) : w[j] \in SpaceChars

Core(w) == SubSeq(w, FirstAlnum(w), LastAlnum(w))
LeadingPunct(w) == SubSeq(w, FirstNonSpace(w), FirstAlnum(w) - 1)
TrailingPunct(w) == SubSeq(w, LastAlnum(w) + 1, LastNonSpace(w))

(* floor(n * r) for a finite ratio r = num/den, in exact arithmetic; \div   *)
(* rounds toward minus infinity                                            *)
Floor(n, r) == (n * r.num) \div r.den

(* the bold counts the policy admits for a core of length n at ratio r:    *)
(* floor(n * inf) is infinite, so the clamp gives n; floor(n * nan) has no *)
(* value, so any count within the core is admitted                         *)
PolicyCounts(n, r) ==
    IF n <= 2 THEN {1}
    ELSE IF n <= 5 THEN {2}
    ELSE IF r.kind = "finite" THEN {Min(n, Max(1, Floor(n, r)))}
    ELSE IF r.kind = "inf" THEN {n}
    ELSE 1..n

(* floor of the product n * r as floating-point arithmetic rounds it, for  *)
(* a finite ratio (62.99... for 90 * 0.7, 7.0 for 10 * 0.7)                *)
RoundedFloor(n, r) ==
    LET x == float_mul(n, r)
    IN IF x.below THEN (x.num \div x.den) - 1 ELSE x.num \div x.den

----
(* Properties of apply_bionic_formatting, checked under SpecSplit *)

(* C1: for every input string (exterior tabs or newlines included) and     *)
(* every ratio, the returned pair satisfies bold + regular = word.         *)
C1_LosslessReconstruction ==
    (pc = "returned" /\ result.ok) => result.bold \o result.regular = word

(* C2: for a word with a non-empty core of length n and every ratio r, the *)
(* call returns (leadingPunct + core[:k], core[k:] + trailingPunct) with   *)
(* k = 1 if n <= 2, 2 if 3 <= n <= 5, min(n, max(1, floor(n*r))) if n >= 6.*)
C2_BoldCountPolicy ==
    (pc = "returned" /\ HasAlnum(word)) =>
        LET core == Core(word)
        IN \E k \in PolicyCounts(Len(core), bold_percentage) :
              result = Returned(LeadingPunct(word) \o SubSeq(core, 1, k),
                                SubSeq(core, k + 1, Len(core)) \o TrailingPunct(word))

(* Supporting property for C2: the policy holds for every core of up to 5  *)
(* characters under every ratio, and for longer cores under every finite   *)
(* ratio whose exact product n * r is what the floating-point product      *)
(* rounds down to.                                                         *)
BoldCountPolicyWhereExact ==
    (/\ pc = "returned" /\ HasAlnum(word)
     /\ \/ Len(Core(word)) <= 5
        \/ /\ bold_percentage.kind = "finite"
           /\ RoundedFloor(Len(Core(word)), bold_percentage)
                  = Floor(Len(Core(word)), bold_percentage)) =>
        LET core == Core(word)
        IN \E k \in PolicyCounts(Len(core), bold_percentage) :
              result = Returned(LeadingPunct(word) \o SubSeq(core, 1, k),
                                SubSeq(core, k + 1, Len(core)) \o TrailingPunct(word))

(* Supporting property for C2: a core of 90 characters at 0.7 gets 62 bold *)
(* characters, one fewer than floor(90 * 0.7) = 63.                        *)
LongCoreOneShort ==
    (pc = "returned" /\ word = Rep("a", 90) /\ bold_percentage = Fin(7, 10)) =>
        Len(result.bold) = 62 /\ Floor(90, bold_percentage) = 63

(* C3: for a word with a non-empty core of length n and every ratio, the   *)
(* call returns, and between 1 and n core characters are in the bold part. *)
C3_BoldCountWithinCore ==
    (pc = "returned" /\ HasAlnum(word)) =>
        LET inBold == Len(result.bold) - Len(LeadingPunct(word))
        IN result.ok /\ 1 <= inBold /\ inBold <= Len(Core(word))

(* Supporting property for C3: under every finite ratio (negative, 0 and   *)
(* greater than 1 included) the call returns and the count is within 1..n. *)
BoldCountWithinCoreFinite ==
    (pc = "returned" /\ HasAlnum(word) /\ bold_percentage.kind = "finite") =>
        LET inBold == Len(result.bold) - Len(LeadingPunct(word))
        IN result.ok /\ 1 <= inBold /\ inBold <= Len(Core(word))

(* C4: an input that is empty, all whitespace or without any alphanumeric  *)
(* character is returned unchanged as (input, ""), for every ratio.        *)
C4_NoEmphasis ==
    (pc = "returned" /\ ~HasAlnum(word)) => result = Returned(word, <<>>)

(* a pure-punctuation token next to whitespace came back unchanged under   *)
(* a non-finite ratio                                                      *)
C4_Witness ==
    /\ pc = "returned" /\ word = <<"-", "-", "\t">>
    /\ bold_percentage.kind = "inf"
    /\ result = Returned(word, <<>>)

----
(* Property of format_text, checked under SpecFormat *)

NumSpaces(t) == Cardinality({i \in 1..Len(t) : t[i] = " "})

RECURSIVE ConcatPairs(_)
ConcatPairs(ps) ==
    IF ps = <<>> THEN <<>>
    ELSE Head(ps).bold \o Head(ps).regular \o ConcatPairs(Tail(ps))

(* C5: for every text (consecutive, leading or trailing spaces and tokens  *)
(* with tabs included) and every ratio, format_text returns one pair per   *)
(* single-space-delimited token and the concatenation of bold + regular    *)
(* over all pairs is the original text.                                    *)
C5_FormatRoundTrip ==
    (pc = "returned" /\ formatted_words.ok) =>
        /\ Len(formatted_words.pairs) = NumSpaces(text) + 1
        /\ ConcatPairs(formatted_words.pairs) = text

----
(* Properties of the replay of one span, checked under SpecReplay *)

SpaceWidth == get_text_length(<<" ">>, regular_font, span.size)

(* the width of the unsplit words ws[k..] under the regular font *)
RECURSIVE UnsplitWidth(_, _)
UnsplitWidth(ws, k) ==
    IF k > Len(ws) THEN 0
    ELSE get_text_length(ws[k], regular_font, span.size) + UnsplitWidth(ws, k + 1)

(* the width of the bold and regular parts of the words ws[1..k], each     *)
(* part under its own font                                                 *)
RECURSIVE PartsWidth(_, _)
PartsWidth(ws, k) ==
    IF k = 0 THEN 0
    ELSE LET res == apply_bionic_formatting(ws[k], bold_percentage)
         IN PartsWidth(ws, k - 1)
            + get_text_length(res.bold, bold_font, span.size)
            + get_text_length(rstrip_space(res.regular), regular_font, span.size)

SpanReplayed == pc = "word" /\ word_i = Len(span_words)

(* C6: when a span has been replayed, the cursor has advanced by the       *)
(* widths of its unsplit words under the regular font plus one space width *)
(* per inter-word space.                                                   *)
C6_CumulativeWidth ==
    SpanReplayed =>
        current_x - span.origin[1] =
            UnsplitWidth(span_words, 1) + (Len(span_words) - 1) * SpaceWidth

(* C9: a library call that raises while a token is replayed does not end   *)
(* the run of generate_bionic_pdf.                                         *)
C9_LibraryFailureNeverAborts ==
    ~(pc = "raised" /\ failure \in {"insert_text", "get_text_length"})

(* C10: the first sub-run of the k-th word (k counted from 0, empty words  *)
(* included) is emitted at origin X + the widths of the parts of all       *)
(* earlier words + k space widths, and sub-runs are emitted in word order. *)
C10_CursorProtocol ==
    pc = "word" =>
        /\ \A n \in 1..Len(emitted) :
              (n = 1 \/ emitted[n - 1].tok # emitted[n].tok) =>
                  emitted[n].x = span.origin[1]
                                 + PartsWidth(span_words, emitted[n].tok)
                                 + emitted[n].tok * SpaceWidth
        /\ \A n \in 2..Len(emitted) : emitted[n - 1].tok <= emitted[n].tok

(* C11: every image inserted into the destination page is the image of     *)
(* the block at whose bounding box it is placed, a block receives at most  *)
(* one image, and two image blocks with different images receive           *)
(* different images.                                                       *)
C11_ImagePassthrough ==
    /\ \A n \in 1..Len(page_images) :
          page_images[n].image = page_images[n].block_image
    /\ \A n, m \in 1..Len(page_images) :
          /\ (page_images[n].bbox = page_images[m].bbox) => n = m
          /\ (page_images[n].block_image # page_images[m].block_image) =>
                 page_images[n].image # page_images[m].image

(* the letter expansion of a code point of the ligature table, and any     *)
(* other character unchanged                                               *)
Expansion(c) ==
    CASE c = "U+FB00" -> <<"f", "f">>
      [] c = "U+FB01" -> <<"f", "i">>
      [] c = "U+FB02" -> <<"f", "l">>
      [] c = "U+FB03" -> <<"f", "f", "i">>
      [] c = "U+FB04" -> <<"f", "f", "l">>
      [] c = "U+FB05" -> <<"f", "t">>
      [] c = "U+FB06" -> <<"s", "t">>
      [] OTHER -> <<c>>

RECURSIVE Expand(_)
Expand(s) == IF s = <<>> THEN <<>> ELSE Expansion(Head(s)) \o Expand(Tail(s))

HasLigature(s) == \E k \in 1..Len(s) : s[k] \in Ligatures

----
(* Properties of the markup injector, checked under SpecInject and         *)
(* SpecChapter                                                             *)

HasStrong(h) == \E k \in 1..Len(h) : h[k] = "<strong>"
StrongOpen(h) == CHOOSE k \in 1..Len(h) : h[k] = "<strong>"
StrongClose(h) == CHOOSE k \in 1..Len(h) : h[k] = "</strong>"
BeforeStrong(h) == SubSeq(h, 1, StrongOpen(h) - 1)
InStrong(h) == SubSeq(h, StrongOpen(h) + 1, StrongClose(h) - 1)

IsToken(t) == t # <<>> /\ \A k \in 1..Len(t) : t[k] \notin SpaceChars

(* C7: for a whitespace-free token and a finite ratio, format_text_bionic  *)
(* emphasises exactly the characters that apply_bionic_formatting puts in  *)
(* bold after the leading punctuation, and emits no emphasis marker        *)
(* exactly when the splitter emphasises nothing (its (token, "") result    *)
(* for a token without alphanumeric core).                                 *)
C7_SameEmphasisDecision ==
    (pc = "returned" /\ IsToken(text) /\ bold_percentage.kind = "finite") =>
        LET split == apply_bionic_formatting(text, bold_percentage)
        IN /\ HasStrong(markup.html) <=> HasAlnum(text)
           /\ HasStrong(markup.html) =>
                 /\ BeforeStrong(markup.html) = LeadingPunct(text)
                 /\ BeforeStrong(markup.html) \o InStrong(markup.html) = split.bold

StripMarkers(h) == SelectSeq(h, LAMBDA c : c \notin {"<strong>", "</strong>"})

(* s without the whitespace at its start and end and with one space for    *)
(* every run of whitespace between two tokens; started tells whether a     *)
(* token has been seen                                                     *)
RECURSIVE SingleSpaced(_, _)
SingleSpaced(s, started) ==
    IF s = <<>> THEN <<>>
    ELSE IF Head(s) \notin SpaceChars
    THEN <<Head(s)>> \o SingleSpaced(Tail(s), TRUE)
    ELSE IF started /\ Tail(s) # <<>> /\ Head(Tail(s)) \notin SpaceChars
    THEN <<" ">> \o SingleSpaced(Tail(s), started)
    ELSE SingleSpaced(Tail(s), started)

(* C14: for a text with a non-whitespace character, the markup built by    *)
(* format_text_bionic, with its emphasis markers removed, is the text's    *)
(* whitespace-delimited tokens in their order joined by single spaces;     *)
(* it neither starts nor ends with whitespace.                             *)
C14_TextPreserved ==
    (pc = "returned" /\ markup.ok /\ strip(text) # <<>>) =>
        LET plain == StripMarkers(markup.html)
        IN /\ plain = SingleSpaced(text, FALSE)
           /\ plain # <<>>
           /\ plain[1] \notin SpaceChars
           /\ plain[Len(plain)] \notin SpaceChars

(* a text of two tokens or more that ends in whitespace has been formatted *)
(* with emphasis                                                           *)
C14_Witness ==
    /\ pc = "returned"
    /\ markup.ok
    /\ Len(text) >= 3
    /\ text[Len(text)] \in SpaceChars
    /\ Len(split_whitespace(text)) >= 2
    /\ HasStrong(markup.html)

(* C8: the response to a chapter request with bold_percentage = 0.0 holds  *)
(* no emphasis element in any text node.                                   *)
C8_ZeroRatioIsRaw ==
    (response.status = 200 /\ request.bold_percentage = Fin(0, 1)) =>
        \A k \in 1..Len(response.html_content) :
            ~HasStrong(response.html_content[k].text)

(* the tree of the requested chapter when apply_bionic_to_html is called,  *)
(* and when it has returned                                                *)
SoupBefore == convert_images_to_base64(documents[request.chapter_id + 1])
SoupAfter == apply_bionic_to_html(SoupBefore, request.bold_percentage)

Qualifies(node) ==
    /\ node.type = "NavigableString"
    /\ node.tag \notin {"script", "style", "title"}
    /\ strip(node.text) # <<>>

(* C13: apply_bionic_to_html replaces qualifying text nodes only: a text   *)
(* node under script, style or title, a whitespace-only text node and      *)
(* every node that is not a text node are left as they were, and no src    *)
(* attribute and no parent element changes.                                *)
C13_Frame ==
    response.status = 200 =>
        /\ Len(SoupAfter) = Len(SoupBefore)
        /\ \A k \in 1..Len(SoupBefore) :
              /\ SoupAfter[k].src = SoupBefore[k].src
              /\ SoupAfter[k].tag = SoupBefore[k].tag
              /\ ~Qualifies(SoupBefore[k]) => SoupAfter[k] = SoupBefore[k]

----
(* Properties of the file manager, checked under SpecFiles *)

Age(fs, file_id, t) == t - fs[file_id].last_accessed

(* C15: an entry leaves files only in a delete_file of it or in the sweep  *)
(* of a store_file; after a store_file no entry left was last accessed     *)
(* more than expiry_hours ago and every entry accessed within expiry_hours *)
(* is still there; get_file of an entry returns its content and sets its   *)
(* last_accessed to the time of the call, however old the entry is;        *)
(* get_filename changes no entry.                                          *)
C15_SessionExpiry ==
    [][/\ \A file_id \in DOMAIN files \ DOMAIN files' :
             \/ DeleteFile /\ last_call'.file_id = file_id
             \/ StoreFile /\ Age(files, file_id, now) > expiry_hours
       /\ StoreFile =>
             /\ \A file_id \in DOMAIN files' :
                    Age(files', file_id, now') <= expiry_hours
             /\ \A file_id \in DOMAIN files :
                    Age(files, file_id, now) <= expiry_hours =>
                        /\ file_id \in DOMAIN files'
                        /\ files'[file_id] = files[file_id]
       /\ GetFile =>
             \A file_id \in DOMAIN files :
                 IF last_call'.file_id = file_id
                 THEN /\ last_call'.value = files[file_id].content
                      /\ file_id \in DOMAIN files'
                      /\ files'[file_id].last_accessed = now
                 ELSE /\ file_id \in DOMAIN files'
                      /\ files'[file_id] = files[file_id]
       /\ GetFilename => files' = files
      ]_vars

(* a store_file has swept an expired entry away and kept one that was last *)
(* accessed exactly expiry_hours before                                    *)
C15_Witness ==
    /\ last_call.op = "store_file"
    /\ last_call.cleaned >= 1
    /\ \E file_id \in DOMAIN files : Age(files, file_id, now) = expiry_hours

====
